---- MODULE Spec2Model ----
(***************************************************************************)
(* Employee Compensation Calculator: the two Streamlit scripts             *)
(*   src/app.py             Excel upload + Google Sheets, "gs" variant     *)
(*   src/.streamlit/app.py  multi-file upload, "multi" variant             *)
(* modelled as state machines over the Streamlit session state.  One       *)
(* action is one run of the script, started by one widget interaction.     *)
(*                                                                         *)
(* Numbers are fixed-point decimals: the integer v stands for v / Scale.   *)
(* Text cells are sequences of one-character strings.                      *)
(***************************************************************************)
EXTENDS Integers, Sequences, FiniteSets, TLC

(***************************************************************************)
(* Cells                                                                   *)
(***************************************************************************)
\* the number of decimal places a number of the model carries
FracDigits == 5

Digits == {"0", "1", "2", "3", "4", "5", "6", "7", "8", "9"}
DigitSeq == <<"0", "1", "2", "3", "4", "5", "6", "7", "8", "9">>
DigitVal(ch) == CHOOSE d \in 0..9 : DigitSeq[d + 1] = ch

\* a float64 (or int64) cell, a text cell, a missing cell (NaN / None)
NumCell(v) == [k |-> "num", v |-> v, s |-> <<>>]
StrCell(s) == [k |-> "str", v |-> 0, s |-> s]
NaN == [k |-> "nan", v |-> 0, s |-> <<>>]
IsNum(c) == c.k = "num"
IsStr(c) == c.k = "str"
IsNaN(c) == c.k = "nan"

RECURSIVE Pow10(_)
Pow10(n) == IF n = 0 THEN 1 ELSE 10 * Pow10(n - 1)

\* v stands for v / Scale
Scale == Pow10(FracDigits)

RECURSIVE IntStr(_)
\* decimal digits of a natural number
IntStr(n) == IF n < 10 THEN <<DigitSeq[n + 1]>>
             ELSE IntStr(n \div 10) \o <<DigitSeq[(n % 10) + 1]>>

RECURSIVE FracStr(_, _)
\* the fraction f (0 <= f < Scale) printed on w digits, trailing zeros dropped,
\* at least one digit kept
FracStr(f, w) == IF w = 1 \/ f % Pow10(w - 1) = 0
                 THEN <<DigitSeq[(f \div Pow10(w - 1)) + 1]>>
                 ELSE <<DigitSeq[(f \div Pow10(w - 1)) + 1]>> \o FracStr(f % Pow10(w - 1), w - 1)

RECURSIVE StripZeros(_)
StripZeros(s) == IF Len(s) > 1 /\ s[Len(s)] = "0" THEN StripZeros(SubSeq(s, 1, Len(s) - 1)) ELSE s

\* exponent notation of a / Scale: "1e-05", "1.2e-05"
ExpStr(a) ==
    LET ds == IntStr(a)
        m == StripZeros(ds)
        e == FracDigits - Len(ds) + 1
    IN <<m[1]>> \o (IF Len(m) > 1 THEN <<".">> \o SubSeq(m, 2, Len(m)) ELSE <<>>)
       \o <<"e", "-">> \o (IF e < 10 THEN <<"0">> ELSE <<>>) \o IntStr(e)

\* str(float): Python's repr of a float.  Positional notation for
\* 1e-4 <= |x| < 1e16, exponent notation below 1e-4 ("1e-05"); the model's
\* numbers stay below 1e16.
FloatStr(v) ==
    LET a == IF v < 0 THEN -v ELSE v
        body == IF a = 0 THEN <<"0", ".", "0">>
                ELSE IF a < Scale \div 10000 THEN ExpStr(a)
                ELSE IntStr(a \div Scale) \o <<".">> \o FracStr(a % Scale, FracDigits)
    IN IF v < 0 THEN <<"-">> \o body ELSE body

\* Series.astype(str), one cell
astype_str(c) == IF IsStr(c) THEN c.s
                 ELSE IF IsNaN(c) THEN <<"n", "a", "n">>
                 ELSE FloatStr(c.v)

\* .str.replace(r'[^\d.]', '', regex=True), one cell
str_replace(s) == SelectSeq(s, LAMBDA ch : ch \in Digits \cup {"."})

RECURSIVE DigitsVal(_)
DigitsVal(s) == IF s = <<>> THEN 0
                ELSE 10 * DigitsVal(SubSeq(s, 1, Len(s) - 1)) + DigitVal(s[Len(s)])

AllDigits(s) == \A i \in 1..Len(s) : s[i] \in Digits

\* position of the first "." of s, Len(s) + 1 when there is none
DotPos(s) == IF \E i \in 1..Len(s) : s[i] = "."
             THEN CHOOSE i \in 1..Len(s) : s[i] = "." /\ \A j \in 1..(i - 1) : s[j] # "."
             ELSE Len(s) + 1

\* an unsigned decimal literal: digits with at most one ".", at least one digit
IsDecimal(s) ==
    LET p == DotPos(s)
        ip == SubSeq(s, 1, p - 1)
        fp == SubSeq(s, p + 1, Len(s))
    IN /\ AllDigits(ip) /\ AllDigits(fp)
       /\ Len(ip) + Len(fp) > 0
       /\ Len(fp) <= FracDigits

DecimalVal(s) ==
    LET p == DotPos(s)
        ip == SubSeq(s, 1, p - 1)
        fp == SubSeq(s, p + 1, Len(s))
    IN DigitsVal(ip) * Scale + DigitsVal(fp) * Pow10(FracDigits - Len(fp))

\* the text of a number as pd.to_numeric reads it: an optional sign, a decimal
Unsigned(s) == IF s # <<>> /\ s[1] \in {"-", "+"} THEN SubSeq(s, 2, Len(s)) ELSE s
ParseOK(s) == IsDecimal(Unsigned(s))
ParseVal(s) == IF s # <<>> /\ s[1] = "-" THEN -DecimalVal(Unsigned(s)) ELSE DecimalVal(Unsigned(s))

\* pd.to_numeric(..., errors='coerce'), one cell
to_numeric(c) == IF IsStr(c) THEN (IF ParseOK(c.s) THEN NumCell(ParseVal(c.s)) ELSE NaN)
                 ELSE c

\* the missing cell left as it is
fillna_skipped(c) == c

\* .fillna(0), one cell
fillna(c) == IF IsNaN(c) THEN NumCell(0) ELSE c

\* a column is a sequence of cells
MapCol(F(_), col) == [i \in 1..Len(col) |-> F(col[i])]

\* pd.api.types.is_numeric_dtype: a column read with text in it has dtype object
is_numeric_dtype(col) == \A i \in 1..Len(col) : ~IsStr(col[i])

(***************************************************************************)
(* Tables (pandas DataFrames)                                              *)
(***************************************************************************)
\* not a table: Python's None
None == [none |-> TRUE]

\* a DataFrame: its column names in order, its row index, its cells by column
DataFrame(columns, index, data) == [columns |-> columns, index |-> index, data |-> data]

Range(s) == {s[i] : i \in 1..Len(s)}
\* len(df)
len(df) == Len(df.index)
\* set(df.columns)
set(df) == Range(df.columns)
\* df.empty: no rows or no columns
empty(df) == Len(df.index) = 0 \/ Len(df.columns) = 0
\* range(n) as a row index
RangeIndex(n) == [i \in 1..n |-> i - 1]

\* the column names of the model, in a fixed order
ColumnNames == <<"Employee ID", "First Name", "Last Name", "Department",
                 "Base Salary", "Bonus", "Calculated Total Compensation">>

\* list(a set of column names); Python leaves the order of a set unspecified,
\* the model takes the order of ColumnNames
list(S) == SelectSeq(ColumnNames, LAMBDA c : c \in S)

\* the suffixes pd.merge puts to the names of the columns both tables have
suffixes == <<"_excel", "_sheets">>

\* the name of a column without the suffix of pd.merge
Unsuffixed(col) ==
    IF col \in Range(ColumnNames) THEN col
    ELSE CHOOSE c \in Range(ColumnNames) : col \in {c \o suffixes[1], c \o suffixes[2]}

\* which vocabulary terms are substrings of a column name (Python's `in` on
\* str); the suffixes hold none
Substrings(col) ==
    LET name == Unsuffixed(col)
    IN CASE name = "Base Salary" -> {"Base Salary", "Salary"}
         [] name = "Bonus" -> {"Bonus"}
         [] name = "Calculated Total Compensation" -> {"Total Compensation", "Compensation"}
         [] OTHER -> {}

\* the names the ingestion code treats as numeric
numeric_columns == {"Base Salary", "Annual Bonus", "Benefits",
                    "Stock Options", "Retirement Contribution", "Total Compensation"}

\* the terms the statistics and the analysis tab suggest columns by
comp_terms == {"Salary", "Bonus", "Benefits", "Stock", "Retirement", "Compensation"}

\* any(numeric_name in col for numeric_name in numeric_columns)
is_numeric_name(col) == \E numeric_name \in numeric_columns : numeric_name \in Substrings(col)

\* df[cols]: the columns cols of df, in that order
getitem(df, cols) == DataFrame(cols, df.index, [c \in Range(cols) |-> df.data[c]])

\* df[col] = values (a new column goes last)
setitem(df, col, values) ==
    DataFrame(IF col \in set(df) THEN df.columns ELSE Append(df.columns, col),
              df.index,
              [c \in set(df) \cup {col} |-> IF c = col THEN values ELSE df.data[c]])

(***************************************************************************)
(* Ingestion                                                               *)
(***************************************************************************)
\* the upload path: to_numeric, then fillna(0), on the columns named numeric
upload_clean(col) == MapCol(fillna, MapCol(to_numeric, col))

upload_normalize(df) ==
    DataFrame(df.columns, df.index,
              [c \in set(df) |-> IF is_numeric_name(c) THEN upload_clean(df.data[c])
                                 ELSE df.data[c]])

\* astype(str).str.replace(r'[^\d.]', '', regex=True)
strip_col(col) == MapCol(LAMBDA c : StrCell(str_replace(astype_str(c))), col)

\* the Google Sheets path: strip, to_numeric, fillna(0)
sheet_clean(col) == MapCol(fillna, MapCol(to_numeric, strip_col(col)))

\* values is the table read from the sheet, its first row taken as the header;
\* a sheet without data rows yields None
get_google_sheet_data(values) ==
    IF len(values) = 0 THEN None
    ELSE DataFrame(values.columns, values.index,
                   [c \in set(values) |-> IF is_numeric_name(c) THEN sheet_clean(values.data[c])
                                          ELSE values.data[c]])

(***************************************************************************)
(* Combination                                                             *)
(***************************************************************************)
RECURSIVE ConcatCols(_, _)
\* the cells of column c of the frames dfs, one frame after the other
ConcatCols(dfs, c) == IF dfs = <<>> THEN <<>>
                      ELSE dfs[1].data[c] \o ConcatCols(Tail(dfs), c)

RECURSIVE SumLen(_)
SumLen(dfs) == IF dfs = <<>> THEN 0 ELSE len(dfs[1]) + SumLen(Tail(dfs))

RECURSIVE ConcatIndex(_)
ConcatIndex(dfs) == IF dfs = <<>> THEN <<>> ELSE dfs[1].index \o ConcatIndex(Tail(dfs))

\* the concatenation without ignore_index=True: every frame keeps its row labels
concat_keep_index(dfs) ==
    DataFrame(dfs[1].columns, ConcatIndex(dfs), [c \in set(dfs[1]) |-> ConcatCols(dfs, c)])

\* pd.concat(dfs, ignore_index=True) of frames with the same column set
concat(dfs) ==
    DataFrame(dfs[1].columns, RangeIndex(SumLen(dfs)),
              [c \in set(dfs[1]) |-> ConcatCols(dfs, c)])

RECURSIVE all_columns_loop_silent(_, _, _)
\* the loop without its st.warning
all_columns_loop_silent(dfs, all_columns, warned) ==
    IF dfs = <<>> THEN [all_columns |-> all_columns, warned |-> warned]
    ELSE all_columns_loop_silent(Tail(dfs), all_columns \cap set(dfs[1]), warned)

RECURSIVE all_columns_loop(_, _, _)
\* the loop over dfs[1:]: the running intersection and whether it warned
all_columns_loop(dfs, all_columns, warned) ==
    IF dfs = <<>> THEN [all_columns |-> all_columns, warned |-> warned]
    ELSE IF set(dfs[1]) # all_columns
         THEN all_columns_loop(Tail(dfs), all_columns \cap set(dfs[1]), TRUE)
         ELSE all_columns_loop(Tail(dfs), all_columns, warned)

\* "Combine All Sources for Analysis" on the list of source tables
combine_all(dfs) ==
    LET r == all_columns_loop(Tail(dfs), set(dfs[1]), FALSE)
        dfs_filtered == [i \in 1..Len(dfs) |-> getitem(dfs[i], list(r.all_columns))]
    IN [all_columns |-> r.all_columns, warned |-> r.warned, combined |-> concat(dfs_filtered)]

\* the order of keys (of a groupby, of an outer join): numbers before text, text by characters
Alphabet == <<"$", ",", "-", ".", "0", "1", "2", "3", "4", "5", "6", "7", "8", "9",
              "E", "O", "a", "e", "n", "x">>
CharRank(ch) == CHOOSE i \in 1..Len(Alphabet) : Alphabet[i] = ch

RECURSIVE StrLess(_, _)
StrLess(s, t) ==
    IF t = <<>> THEN FALSE
    ELSE IF s = <<>> THEN TRUE
    ELSE IF s[1] # t[1] THEN CharRank(s[1]) < CharRank(t[1])
    ELSE StrLess(Tail(s), Tail(t))

KeyLess(a, b) ==
    IF IsNum(a) /\ IsNum(b) THEN a.v < b.v
    ELSE IF IsNum(a) # IsNum(b) THEN IsNum(a)
    ELSE StrLess(a.s, b.s)

RECURSIVE SortedKeys(_)
\* the keys, ascending
SortedKeys(S) ==
    IF S = {} THEN <<>>
    ELSE LET m == CHOOSE x \in S : \A y \in S \ {x} : KeyLess(x, y)
         IN <<m>> \o SortedKeys(S \ {m})

\* sorted(list(common_cols)): the names in the order of Python's str
sorted_cols(S) == SelectSeq(<<"Base Salary", "Bonus", "Calculated Total Compensation", "Department",
                         "Employee ID", "First Name", "Last Name">>, LAMBDA c : c \in S)

\* the join types of the selectbox
join_types == <<"inner", "outer", "left", "right">>

RECURSIVE Flatten(_)
Flatten(ss) == IF ss = <<>> THEN <<>> ELSE ss[1] \o Flatten(Tail(ss))

\* the rows 1..n whose key is k, ascending
RowsWithKey(keys, k) == SelectSeq([i \in 1..Len(keys) |-> i], LAMBDA i : keys[i] = k)

\* the keys of an outer join in their order: ascending, the missing key last
OuterKeys(S) == SortedKeys(S \ {NaN}) \o (IF NaN \in S THEN <<NaN>> ELSE <<>>)

\* the row pairs <<i, j>> of pd.merge: row i of the left table with row j of
\* the right one, 0 for the side that has no row with the key
merge_rows(lk, rk, how) ==
    LET Pairs(is, js) == Flatten([m \in 1..Len(is) |-> [n \in 1..Len(js) |-> <<is[m], js[n]>>]])
        OfLeft(i) == Pairs(<<i>>, RowsWithKey(rk, lk[i]))
        OfRight(j) == Pairs(RowsWithKey(lk, rk[j]), <<j>>)
        OfKey(k) == LET is == RowsWithKey(lk, k)
                        js == RowsWithKey(rk, k)
                    IN IF is # <<>> /\ js # <<>> THEN Pairs(is, js)
                       ELSE IF is # <<>> THEN Pairs(is, <<0>>)
                       ELSE Pairs(<<0>>, js)
        keys == OuterKeys(Range(lk) \cup Range(rk))
    IN CASE how = "inner" -> Flatten([i \in 1..Len(lk) |-> OfLeft(i)])
         [] how = "left" -> Flatten([i \in 1..Len(lk) |->
                                IF OfLeft(i) = <<>> THEN <<<<i, 0>>>> ELSE OfLeft(i)])
         [] how = "right" -> Flatten([j \in 1..Len(rk) |->
                                IF OfRight(j) = <<>> THEN <<<<0, j>>>> ELSE OfRight(j)])
         [] how = "outer" -> Flatten([n \in 1..Len(keys) |-> OfKey(keys[n])])

\* the table pd.merge builds from the row pairs rows: the columns of left,
\* then those of right without the key, a suffix put to the names both have;
\* the cells of a side that has no row in a pair are missing
merge_frame(left, right, on, rows) ==
    LET both == (set(left) \cap set(right)) \ {on}
        rcols == SelectSeq(right.columns, LAMBDA c : c # on)
        lname(c) == IF c \in both THEN c \o suffixes[1] ELSE c
        rname(c) == IF c \in both THEN c \o suffixes[2] ELSE c
        lcell(c, p) == IF p[1] # 0 THEN left.data[c][p[1]]
                       ELSE IF c = on THEN right.data[on][p[2]] ELSE NaN
        rcell(c, p) == IF p[2] # 0 THEN right.data[c][p[2]] ELSE NaN
        lcols == [c \in set(left) |-> [n \in 1..Len(rows) |-> lcell(c, rows[n])]]
        rcols_ == [c \in Range(rcols) |-> [n \in 1..Len(rows) |-> rcell(c, rows[n])]]
    IN DataFrame([n \in 1..Len(left.columns) |-> lname(left.columns[n])]
                    \o [n \in 1..Len(rcols) |-> rname(rcols[n])],
                 RangeIndex(Len(rows)),
                 [name \in {lname(c) : c \in set(left)} \cup {rname(c) : c \in Range(rcols)} |->
                     IF \E c \in set(left) : lname(c) = name
                     THEN lcols[CHOOSE c \in set(left) : lname(c) = name]
                     ELSE rcols_[CHOOSE c \in Range(rcols) : rname(c) = name]])

\* pd.merge(left, right, on=on, how=how, suffixes=suffixes): the table, or
\* the ValueError pandas raises for a key that is numeric in one table and
\* text in the other, both having rows
merge(left, right, on, how) ==
    IF /\ len(left) > 0 /\ len(right) > 0
       /\ is_numeric_dtype(left.data[on]) # is_numeric_dtype(right.data[on])
    THEN [raised |-> TRUE, df |-> None]
    ELSE [raised |-> FALSE,
          df |-> merge_frame(left, right, on, merge_rows(left.data[on], right.data[on], how))]

(***************************************************************************)
(* Analysis                                                                *)
(***************************************************************************)
Derived == "Calculated Total Compensation"

\* [col for col in combined_df.columns if any(term in str(col) for term in [...])]
comp_columns(df) == SelectSeq(df.columns, LAMBDA col : \E term \in comp_terms : term \in Substrings(col))

\* one pass of the loop "Ensure all selected columns are numeric"
coerce_col(col) ==
    LET cleaned == IF ~is_numeric_dtype(col) THEN strip_col(col) ELSE col
    IN MapCol(fillna, MapCol(to_numeric, cleaned))

RECURSIVE coerce_loop(_, _)
\* for col in selected_columns: calc_df[col] = ...
coerce_loop(calc_df, selected_columns) ==
    IF selected_columns = <<>> THEN calc_df
    ELSE coerce_loop(setitem(calc_df, selected_columns[1],
                             coerce_col(calc_df.data[selected_columns[1]])),
                     Tail(selected_columns))

RECURSIVE row_total(_, _, _)
\* the sum of row i of df over the columns cols
row_total(df, cols, i) ==
    IF cols = <<>> THEN 0
    ELSE df.data[cols[1]][i].v + row_total(df, Tail(cols), i)

\* the row-wise sum taken over the suggested columns instead of the selected ones
sum_axis1_suggested(df, cols) ==
    [i \in 1..len(df) |-> NumCell(row_total(df, SelectSeq(df.columns,
         LAMBDA col : \E term \in {"Salary", "Bonus", "Compensation"} : term \in Substrings(col)), i))]

\* df[cols].sum(axis=1)
sum_axis1(df, cols) == [i \in 1..len(df) |-> NumCell(row_total(df, cols, i))]

RECURSIVE sum(_)
\* Series.sum() of a numeric column
sum(col) == IF col = <<>> THEN 0 ELSE col[1].v + sum(Tail(col))

\* total / n on a numpy scalar: a quotient, kept exact as numerator and
\* denominator; 0 / 0 is nan
truediv(total, n) == [num |-> total, den |-> n, nan |-> n = 0]

\* groupby(by)[value].agg(['sum', 'mean', 'count']): one row per key that is
\* not missing, keys ascending
groupby_agg(df, by, value) ==
    LET keys == SortedKeys({df.data[by][i] : i \in 1..len(df)} \ {NaN})
        rows(k) == SelectSeq(RangeIndex(len(df)), LAMBDA j : df.data[by][j + 1] = k)
        vals(k) == [n \in 1..Len(rows(k)) |-> df.data[value][rows(k)[n] + 1]]
    IN [g \in 1..Len(keys) |->
          [key |-> keys[g],
           sum |-> sum(vals(keys[g])),
           mean |-> truediv(sum(vals(keys[g])), Len(vals(keys[g]))),
           count |-> Len(vals(keys[g]))]]

RECURSIVE insert_desc(_, _)
\* r put into the rows sorted by sum, largest first, after the rows equal to it
insert_desc(sorted, r) ==
    IF sorted = <<>> THEN <<r>>
    ELSE IF sorted[1].sum >= r.sum THEN <<sorted[1]>> \o insert_desc(Tail(sorted), r)
    ELSE <<r>> \o sorted

\* the groups left in the order of their keys
sort_values_skipped(rows) == rows

RECURSIVE sort_values(_)
\* sort_values('Total Compensation', ascending=False)
sort_values(rows) ==
    IF rows = <<>> THEN <<>>
    ELSE insert_desc(sort_values(SubSeq(rows, 1, Len(rows) - 1)), rows[Len(rows)])

\* the names the results multiselect takes as its default besides the selection
display_default == {"Employee ID", "First Name", "Last Name"}

\* no analysis was made in this run
NoAnalysis == [stage |-> "none", selected_columns |-> <<>>, summed |-> None, calc_df |-> None,
               total_comp |-> 0, avg_comp |-> None, chart_data |-> <<>>,
               dept_data |-> None, combined_df |-> None]

\* calc_df = combined_df, the same object under a second name
copy_skipped(df) == [df |-> df, shares |-> TRUE]

\* combined_df.copy(): a new object with the cells of df, sharing nothing
copy(df) == [df |-> df, shares |-> FALSE]

\* the body of "if selected_columns:" on the working table
analysis(combined_df, selected_columns) ==
    LET ref == copy(combined_df)
        coerced == coerce_loop(ref.df, selected_columns)
        \* calc_df[selected_columns], the frame the row-wise sum is taken of
        summed == getitem(coerced, selected_columns)
        calc_df == setitem(coerced, Derived, sum_axis1(coerced, selected_columns))
        total_comp == sum(calc_df.data[Derived])
        \* st.multiselect raises when a default value is not among its options
        raised == ~(display_default \subseteq set(calc_df))
        avg_comp == truediv(total_comp, len(calc_df))
        chart_data == [n \in 1..(Len(selected_columns) + 1) |->
                         IF n <= Len(selected_columns)
                         THEN [Component |-> selected_columns[n],
                               Amount |-> sum(calc_df.data[selected_columns[n]])]
                         ELSE [Component |-> "Total", Amount |-> total_comp]]
        dept_data == IF "Department" \in set(calc_df)
                     THEN sort_values(groupby_agg(calc_df, "Department", Derived))
                     ELSE None
        \* the object combined_df after the assignments to the columns of
        \* calc_df: they reach it only when calc_df shares its cells
        after == IF ref.shares THEN calc_df ELSE combined_df
    IN IF raised
       THEN [NoAnalysis EXCEPT !.stage = "raised", !.selected_columns = selected_columns,
                               !.summed = summed, !.calc_df = calc_df,
                               !.total_comp = total_comp, !.combined_df = after]
       ELSE [stage |-> "done", selected_columns |-> selected_columns, summed |-> summed,
             calc_df |-> calc_df,
             total_comp |-> total_comp, avg_comp |-> avg_comp, chart_data |-> chart_data,
             dept_data |-> dept_data, combined_df |-> after]

\* the table object df of the session after a run whose analysis part gave o
after_analysis(o, df) == IF o.stage = "none" THEN df ELSE o.combined_df

(***************************************************************************)
(* Inputs: the files a user uploads and the sheets a user connects to      *)
(***************************************************************************)
\* the most rows a source of a session with several sources has
MaxRows == 1
\* the most rows the source of a session with one source has
MaxRowsSingle == 2
\* the most sources the multi-file session holds
MaxSources == 2
\* the most columns a user selects
MaxSelected == 2

Text(s) == StrCell(s)
\* "$7", an amount typed with its currency sign
Dollar7 == Text(<<"$", "7">>)

RECURSIVE ColumnChoices(_, _, _)
\* every choice of n cells for each of the columns cols, in the order of cols
ColumnChoices(cols, n, Cells) ==
    IF cols = <<>> THEN {<<>>}
    ELSE {<<col>> \o rest : col \in [1..n -> Cells[cols[1]]],
                            rest \in ColumnChoices(Tail(cols), n, Cells)}

IndexOf(cols, c) == CHOOSE i \in 1..Len(cols) : cols[i] = c

\* every table with the columns cols, n rows and cells drawn by Cells
Frames(cols, n, Cells) ==
    {DataFrame(cols, RangeIndex(n), [c \in Range(cols) |-> choice[IndexOf(cols, c)]]) :
        choice \in ColumnChoices(cols, n, Cells)}

\* the column layouts of the files of a session with several sources
FileLayouts == {<<"Employee ID", "First Name", "Last Name", "Base Salary">>,
                <<"Department", "Base Salary">>,
                <<"Bonus">>}

\* what a cell of each column holds in a file of such a session
FileCells == [col \in Range(ColumnNames) |->
    CASE col = "Department" -> {Text(<<"E">>)}
      [] col = "Base Salary" -> {NumCell(5 * Scale)}
      [] col = "Bonus" -> {NumCell(3 * Scale)}
      [] OTHER -> {Text(<<"x">>)}]

\* pd.read_csv / pd.read_excel of an uploaded file
UploadedFiles == UNION {Frames(cols, n, FileCells) : cols \in FileLayouts, n \in 0..MaxRows}

\* the cells of a sheet are text
SheetCells == [col \in Range(ColumnNames) |->
    CASE col = "Department" -> {Text(<<"E">>)}
      [] col = "Base Salary" -> {Text(<<"5">>)}
      [] col = "Bonus" -> {Text(<<"3">>)}
      [] OTHER -> {Text(<<"x">>)}]

\* the values of a sheet range, header row taken off
SheetValues == UNION {Frames(cols, n, SheetCells) : cols \in FileLayouts, n \in 0..MaxRows}

\* the column layouts of the file of a session with one source: the full
\* layout, one without the identity columns, an export of the analysis read back
SingleLayouts == {<<"Employee ID", "First Name", "Last Name", "Department", "Base Salary", "Bonus">>,
                  <<"Bonus">>,
                  <<"Employee ID", "First Name", "Last Name", "Base Salary", Derived>>}

SingleCells == [col \in Range(ColumnNames) |->
    CASE col = "Department" -> {Text(<<"E">>), Text(<<"O">>), NaN}
      [] col = "Base Salary" -> {NumCell(5 * Scale)}
      [] col = "Bonus" -> {NumCell(-3 * Scale), Dollar7, NaN}
      [] col = Derived -> {NumCell(8 * Scale), Dollar7}
      [] OTHER -> {Text(<<"x">>)}]

SingleFiles == UNION {Frames(cols, n, SingleCells) : cols \in SingleLayouts, n \in 0..MaxRowsSingle}

SingleSheetCells == [col \in Range(ColumnNames) |->
    CASE col = "Department" -> {Text(<<"E">>), Text(<<"O">>), NaN}
      [] col = "Base Salary" -> {Text(<<"5">>)}
      [] col = "Bonus" -> {Text(<<"-", "3">>), Dollar7, NaN}
      [] col = Derived -> {Text(<<"8">>), Dollar7}
      [] OTHER -> {Text(<<"x">>)}]

SingleSheets == UNION {Frames(cols, n, SingleSheetCells) : cols \in SingleLayouts, n \in 0..MaxRowsSingle}

\* the labels of the sources: "Source " + str(n), or a label the user types
DefaultNames == <<"Source 1", "Source 2", "Source 3", "Source 4", "Source 5">>

RECURSIVE Selections(_, _)
\* the values a multiselect over options returns: distinct options, in the
\* order they were selected, at most n of them
Selections(options, n) ==
    IF n = 0 THEN {<<>>}
    ELSE LET shorter == Selections(options, n - 1)
         IN shorter \cup {Append(p[1], p[2]) :
                            p \in {q \in shorter \X options :
                                     Len(q[1]) = n - 1 /\ q[2] \notin Range(q[1])}}

(***************************************************************************)
(* The session                                                             *)
(***************************************************************************)
VARIABLES
    variant,           \* "multi": src/.streamlit/app.py, "gs": src/app.py
    uploaded_files,    \* multi: st.session_state['uploaded_files'], label and table, in insertion order
    excel_df,          \* gs: st.session_state['excel_df']
    sheets_df,         \* gs: st.session_state['sheets_df']
    combined_df,       \* st.session_state['combined_df']
    proceed_anyway,    \* gs: the checkbox "Proceed with combination anyway"
    combine_method,    \* gs: the radio "How would you like to combine the data?"
    key_column,        \* gs: the selectbox "Select column to join on:", None or its options and value
    join_type,         \* gs: the selectbox "Select join type:"
    selected_columns,  \* the compensation multiselect: None, or its options and its value
    run,               \* what the upload / combination part of the last run did
    out                \* what the analysis part of the last run computed

vars == <<variant, uploaded_files, excel_df, sheets_df, combined_df, proceed_anyway,
          combine_method, key_column, join_type, selected_columns, run, out>>

\* a run that read nothing and combined nothing
NoRun == [op |-> "none", raw |-> None, df |-> None, dfs |-> <<>>, warned |-> FALSE,
          success |-> FALSE, stored |-> FALSE, stopped |-> FALSE, error |-> FALSE,
          duplicates |-> FALSE, raised |-> FALSE]

\* the value the compensation multiselect returns for the table df: the value it
\* held when its options are unchanged, its default otherwise
widget_value(widget, df) ==
    IF widget.none THEN comp_columns(df)
    ELSE IF widget.options = df.columns THEN widget.value
    ELSE comp_columns(df)

NoWidget == [none |-> TRUE, options |-> <<>>, value |-> <<>>]
Widget(df, value) == [none |-> FALSE, options |-> df.columns, value |-> value]

IsNone(x) == x = None

Init ==
    /\ variant \in {"multi", "gs"}
    /\ uploaded_files = <<>>
    /\ excel_df = None
    /\ sheets_df = None
    /\ combined_df = None
    /\ proceed_anyway = FALSE
    /\ combine_method = "Append (Stack records)"
    /\ key_column = NoWidget
    /\ join_type = "inner"
    /\ selected_columns = NoWidget
    /\ run = NoRun
    /\ out = NoAnalysis

(***************************************************************************)
(* src/.streamlit/app.py                                                   *)
(***************************************************************************)
\* tab2 on the table in the session; value is the value of the multiselect
tab2(df, value) ==
    IF IsNone(df) THEN NoAnalysis
    ELSE IF value # <<>> THEN analysis(df, value)
    ELSE NoAnalysis

\* the rest of a run of the multi-file script after tab1 left combined in the
\* session: the multiselect is drawn when there is a table
Tab2(combined) ==
    LET value == widget_value(selected_columns, combined)
    IN /\ selected_columns' = IF IsNone(combined) THEN NoWidget ELSE Widget(combined, value)
       /\ out' = IF IsNone(combined) THEN NoAnalysis ELSE tab2(combined, value)
       /\ combined_df' = after_analysis(out', combined)

dict_keys(files) == [i \in 1..Len(files) |-> files[i].name]
dict_values(files) == [i \in 1..Len(files) |-> files[i].df]

\* uploaded_files[source_name] = df on a dict that keeps insertion order
dict_set(files, source_name, df) ==
    IF source_name \in Range(dict_keys(files))
    THEN [i \in 1..Len(files) |-> IF files[i].name = source_name
                                  THEN [name |-> source_name, df |-> df] ELSE files[i]]
    ELSE Append(files, [name |-> source_name, df |-> df])

\* del uploaded_files[name]
dict_del(files, name) == SelectSeq(files, LAMBDA f : f.name # name)

\* the button "Add to Analysis" with a file in the uploader
AddToAnalysis(file, source_name) ==
    /\ variant = "multi"
    /\ Len(dict_set(uploaded_files, source_name, file)) <= MaxSources
    /\ LET df == upload_normalize(file)
       IN /\ uploaded_files' = dict_set(uploaded_files, source_name, df)
          /\ run' = [NoRun EXCEPT !.op = "upload", !.raw = file, !.df = df]
    /\ Tab2(combined_df)
    /\ UNCHANGED <<variant, excel_df, sheets_df, proceed_anyway, combine_method, key_column,
                   join_type>>

\* the button "Remove <name>": the deletion, then the rerun it asks for
Remove(name) ==
    /\ variant = "multi"
    /\ name \in Range(dict_keys(uploaded_files))
    /\ uploaded_files' = dict_del(uploaded_files, name)
    /\ run' = [NoRun EXCEPT !.op = "remove"]
    /\ Tab2(combined_df)
    /\ UNCHANGED <<variant, excel_df, sheets_df, proceed_anyway, combine_method, key_column,
                   join_type>>

\* the button "Combine All Sources for Analysis"
CombineAll ==
    /\ variant = "multi"
    /\ Len(uploaded_files) > 0
    /\ LET dfs == dict_values(uploaded_files)
           r == combine_all(dfs)
       IN /\ run' = [NoRun EXCEPT !.op = "combine", !.dfs = dfs, !.warned = r.warned,
                                  !.stored = TRUE, !.success = TRUE]
          /\ Tab2(r.combined)
    /\ UNCHANGED <<variant, uploaded_files, excel_df, sheets_df, proceed_anyway,
                   combine_method, key_column, join_type>>

\* a change of the compensation multiselect of tab2
SelectColumns(value) ==
    /\ variant = "multi"
    /\ ~IsNone(combined_df)
    /\ value \in Selections(set(combined_df), MaxSelected)
    /\ selected_columns' = Widget(combined_df, value)
    /\ out' = tab2(combined_df, value)
    /\ combined_df' = after_analysis(out', combined_df)
    /\ run' = [NoRun EXCEPT !.op = "select"]
    /\ UNCHANGED <<variant, uploaded_files, excel_df, sheets_df, proceed_anyway,
                   combine_method, key_column, join_type>>

(***************************************************************************)
(* src/app.py                                                              *)
(***************************************************************************)
\* the choices of the radio "How would you like to combine the data?"
Append_ == "Append (Stack records)"
Join == "Join/Merge on a key column"

\* the radio is drawn when both sources are there
radio_drawn(excel, sheets) == ~IsNone(excel) /\ ~IsNone(sheets)

\* the checkbox "Proceed with combination anyway" is drawn when the sources
\* are stacked and their column sets differ
checkbox_drawn(excel, sheets, method) ==
    /\ radio_drawn(excel, sheets) /\ method = Append_
    /\ set(excel) # set(sheets)

\* the selectboxes of the join are drawn when the sources are joined and
\* have a common column
selectbox_drawn(excel, sheets, method) ==
    /\ radio_drawn(excel, sheets) /\ method = Join
    /\ set(excel) \cap set(sheets) # {}

\* the value the key selectbox returns over options: the value it held when
\* its options are unchanged, the first option otherwise
key_value(widget, options) ==
    IF ~widget.none /\ widget.options = options THEN widget.value ELSE options[1]

\* the combination part of tab3: what is stored as combined_df, or that the
\* run stops or is aborted
tab3_combine(excel, sheets, proceed, method, on, how) ==
    LET Outcome(kind, combined, dfs) ==
            [kind |-> kind, combined |-> combined, warned |-> FALSE, dfs |-> dfs,
             error |-> FALSE, duplicates |-> FALSE]
    IN
    IF IsNone(excel) /\ IsNone(sheets)
    THEN Outcome("nodata", None, <<>>)
    ELSE IF ~IsNone(excel) /\ ~IsNone(sheets)
    THEN IF method = Append_
         THEN LET excel_cols == set(excel)
                  sheets_cols == set(sheets)
                  common_cols == excel_cols \cap sheets_cols
              IN IF excel_cols # sheets_cols
                 THEN IF proceed
                      THEN [Outcome("stored",
                                    concat(<<getitem(excel, list(common_cols)),
                                             getitem(sheets, list(common_cols))>>),
                                    <<excel, sheets>>) EXCEPT !.warned = TRUE]
                      ELSE [Outcome("stop", None, <<excel, sheets>>) EXCEPT !.warned = TRUE]
                 ELSE Outcome("stored", concat(<<excel, sheets>>), <<excel, sheets>>)
         ELSE LET common_cols == set(excel) \cap set(sheets)
                  duplicated(col) == \E i, j \in 1..Len(col) : i # j /\ col[i] = col[j]
                  m == merge(excel, sheets, on, how)
              IN IF common_cols = {}
                 THEN [Outcome("stop", None, <<>>) EXCEPT !.error = TRUE]
                 ELSE [Outcome(IF m.raised THEN "raised" ELSE "stored", m.df, <<>>)
                          EXCEPT !.duplicates = duplicated(excel.data[on])
                                                \/ duplicated(sheets.data[on])]
    ELSE Outcome("alias", IF ~IsNone(excel) THEN excel ELSE sheets, <<>>)

\* the analysis part of tab3 on the table in the session
tab3(df, value) ==
    IF ~IsNone(df) /\ ~empty(df) /\ value # <<>> THEN analysis(df, value)
    ELSE NoAnalysis

\* the rest of tab3 after its combination part gave c: the analysis on the
\* table now in the session, and the session the run leaves
tab3_run(c, excel, sheets, widget, base) ==
    LET combined == IF c.kind \in {"stored", "alias"} THEN c.combined ELSE combined_df
        analysed == c.kind \in {"stored", "alias"} /\ ~IsNone(combined) /\ ~empty(combined)
        value == widget_value(widget, combined)
        \* the single source is stored as combined_df itself, not as a copy
        is_excel == c.kind = "alias" /\ ~IsNone(excel)
        is_sheets == c.kind = "alias" /\ IsNone(excel)
    IN /\ selected_columns' = IF analysed THEN Widget(combined, value) ELSE NoWidget
       /\ out' = IF analysed THEN tab3(combined, value) ELSE NoAnalysis
       /\ combined_df' = after_analysis(out', combined)
       /\ excel_df' = IF is_excel THEN after_analysis(out', excel) ELSE excel
       /\ sheets_df' = IF is_sheets THEN after_analysis(out', sheets) ELSE sheets
       /\ run' = [base EXCEPT !.dfs = c.dfs, !.warned = c.warned,
                              !.stored = (c.kind \in {"stored", "alias"}),
                              !.stopped = (c.kind = "stop"),
                              !.error = c.error, !.duplicates = c.duplicates,
                              !.raised = (c.kind = "raised")]

\* the widgets of the combination part with the values chosen, on and how
tab3_widgets(excel, sheets, proceed, chosen, drawn, on, how) ==
    /\ combine_method' = chosen
    /\ key_column' = IF drawn
                     THEN [none |-> FALSE, options |-> sorted_cols(set(excel) \cap set(sheets)),
                           value |-> on]
                     ELSE NoWidget
    /\ join_type' = IF drawn THEN how ELSE join_types[1]
    /\ proceed_anyway' = (checkbox_drawn(excel, sheets, chosen) /\ proceed)

\* tab3 of a run of src/app.py on the sources excel and sheets; proceed,
\* method, key, how and widget are the states of the widgets the run starts
\* with; a widget that is not drawn in the run loses its state
Tab3(excel, sheets, proceed, method, key, how, widget, base) ==
    LET chosen == IF radio_drawn(excel, sheets) THEN method ELSE Append_
        drawn == selectbox_drawn(excel, sheets, chosen)
        on == IF drawn THEN key_value(key, sorted_cols(set(excel) \cap set(sheets))) ELSE ""
    IN /\ tab3_widgets(excel, sheets, proceed, chosen, drawn, on, how)
       /\ tab3_run(tab3_combine(excel, sheets, proceed, chosen, on, how),
                   excel, sheets, widget, base)

\* a file put into the uploader of tab1
UploadExcel(file) ==
    /\ variant = "gs"
    /\ LET df == upload_normalize(file)
       IN Tab3(df, sheets_df, proceed_anyway, combine_method, key_column, join_type,
               selected_columns, [NoRun EXCEPT !.op = "upload", !.raw = file, !.df = df])
    /\ UNCHANGED <<variant, uploaded_files>>

\* the button "Connect to Google Sheet"
ConnectSheet(sheet) ==
    /\ variant = "gs"
    /\ LET df == get_google_sheet_data(sheet)
           sheets == IF IsNone(df) THEN sheets_df ELSE df
       IN Tab3(excel_df, sheets, proceed_anyway, combine_method, key_column, join_type,
               selected_columns, [NoRun EXCEPT !.op = "connect", !.raw = sheet, !.df = df])
    /\ UNCHANGED <<variant, uploaded_files>>

\* a click on the checkbox "Proceed with combination anyway"
ToggleProceed ==
    /\ variant = "gs"
    /\ checkbox_drawn(excel_df, sheets_df, combine_method)
    /\ Tab3(excel_df, sheets_df, ~proceed_anyway, combine_method, key_column, join_type,
            selected_columns, [NoRun EXCEPT !.op = "proceed"])
    /\ UNCHANGED <<variant, uploaded_files>>

\* a choice of the radio "How would you like to combine the data?"
ChooseMethod(method) ==
    /\ variant = "gs"
    /\ radio_drawn(excel_df, sheets_df)
    /\ method # combine_method
    /\ Tab3(excel_df, sheets_df, proceed_anyway, method, key_column, join_type,
            selected_columns, [NoRun EXCEPT !.op = "method"])
    /\ UNCHANGED <<variant, uploaded_files>>

\* a choice of the selectbox "Select column to join on:"
SelectKey(key) ==
    /\ variant = "gs"
    /\ ~key_column.none
    /\ key \in Range(key_column.options) \ {key_column.value}
    /\ Tab3(excel_df, sheets_df, proceed_anyway, combine_method,
            [key_column EXCEPT !.value = key], join_type,
            selected_columns, [NoRun EXCEPT !.op = "key"])
    /\ UNCHANGED <<variant, uploaded_files>>

\* a choice of the selectbox "Select join type:"
SelectJoinType(how) ==
    /\ variant = "gs"
    /\ ~key_column.none
    /\ how # join_type
    /\ Tab3(excel_df, sheets_df, proceed_anyway, combine_method, key_column, how,
            selected_columns, [NoRun EXCEPT !.op = "how"])
    /\ UNCHANGED <<variant, uploaded_files>>

\* a change of the compensation multiselect of tab3 to value, a selection
\* among its options
SelectColumnsGs(value) ==
    /\ variant = "gs"
    /\ ~selected_columns.none
    /\ Tab3(excel_df, sheets_df, proceed_anyway, combine_method, key_column, join_type,
            [selected_columns EXCEPT !.value = value], [NoRun EXCEPT !.op = "select"])
    /\ UNCHANGED <<variant, uploaded_files>>

Next ==
    \/ \E file \in UploadedFiles : AddToAnalysis(file, DefaultNames[Len(uploaded_files) + 1])
    \/ \E name \in Range(DefaultNames) : Remove(name)
    \/ CombineAll
    \/ \E value \in Selections(Range(ColumnNames), MaxSelected) : SelectColumns(value)
    \/ \E file \in UploadedFiles : UploadExcel(file)
    \/ \E sheet \in SheetValues : ConnectSheet(sheet)
    \/ ToggleProceed
    \/ \E value \in Selections(Range(selected_columns.options), MaxSelected) : SelectColumnsGs(value)

Spec == Init /\ [][Next]_vars

(***************************************************************************)
(* The sessions that hold one source, over a wider range of tables         *)
(***************************************************************************)
NextSingle ==
    \/ \E file \in SingleFiles :
         uploaded_files = <<>> /\ AddToAnalysis(file, DefaultNames[Len(uploaded_files) + 1])
    \/ CombineAll
    \/ \E value \in Selections(Range(ColumnNames), MaxSelected) : SelectColumns(value)
    \/ \E file \in SingleFiles : IsNone(excel_df) /\ IsNone(sheets_df) /\ UploadExcel(file)
    \/ \E sheet \in SingleSheets : IsNone(excel_df) /\ IsNone(sheets_df) /\ ConnectSheet(sheet)
    \/ \E value \in Selections(Range(selected_columns.options), MaxSelected) : SelectColumnsGs(value)

SingleSource == Init /\ [][NextSingle]_vars

(***************************************************************************)
(* The sessions of src/app.py that join an uploaded file and a sheet       *)
(***************************************************************************)
\* the file: the identity columns and the salary, the identifier a number
JoinFileCells == [col \in Range(ColumnNames) |->
    CASE col = "Employee ID" -> {NumCell(1 * Scale)}
      [] col = "Base Salary" -> {NumCell(5 * Scale)}
      [] OTHER -> {Text(<<"x">>)}]

JoinFiles == UNION {Frames(<<"Employee ID", "First Name", "Last Name", "Base Salary">>,
                           n, JoinFileCells) : n \in 0..MaxRows}

\* the sheets: departments by salary, departments by identifier and salary,
\* and one that has no column of the file
JoinSheetLayouts == {<<"Department", "Base Salary">>,
                     <<"Employee ID", "Department", "Base Salary">>,
                     <<"Bonus">>}

JoinSheetCells == [col \in Range(ColumnNames) |->
    CASE col = "Employee ID" -> {Text(<<"1">>)}
      [] col = "Department" -> {Text(<<"E">>)}
      [] col = "Base Salary" -> {Text(<<"5">>), Text(<<"6">>)}
      [] col = "Bonus" -> {Text(<<"3">>)}
      [] OTHER -> {Text(<<"x">>)}]

JoinSheets == UNION {Frames(cols, n, JoinSheetCells) : cols \in JoinSheetLayouts, n \in 1..MaxRows}

NextJoin ==
    \/ \E file \in JoinFiles : IsNone(excel_df) /\ UploadExcel(file)
    \/ \E sheet \in JoinSheets : IsNone(sheets_df) /\ ConnectSheet(sheet)
    \/ ToggleProceed
    \/ \E method \in {Append_, Join} : ChooseMethod(method)
    \/ \E key \in Range(ColumnNames) : SelectKey(key)
    \/ \E how \in Range(join_types) : SelectJoinType(how)
    \/ \E value \in Selections(Range(selected_columns.options), MaxSelected) : SelectColumnsGs(value)

InitJoin == Init /\ variant = "gs"

Joining == InitJoin /\ [][NextJoin]_vars

(***************************************************************************)
(* Properties                                                              *)
(***************************************************************************)
RECURSIVE SetSum(_, _)
\* the sum of f over the set S
SetSum(S, f) == IF S = {} THEN 0
                ELSE LET x == CHOOSE y \in S : TRUE IN f[x] + SetSum(S \ {x}, f)

\* the text of a cell with every character but digits and "." removed
StrippedText(c) == str_replace(astype_str(c))

\* the value the coercion rule gives cell i of a column: the number itself in
\* a numeric column (0 when missing), otherwise the stripped text parsed, 0
\* when it does not parse
CoercedValue(col, i) ==
    IF \A j \in 1..Len(col) : ~IsStr(col[j])
    THEN (IF IsNum(col[i]) THEN col[i].v ELSE 0)
    ELSE (IF IsDecimal(StrippedText(col[i])) THEN DecimalVal(StrippedText(col[i])) ELSE 0)

Analysed == out.stage \in {"done", "raised"}

\* C1: after the aggregation step, each row's 'Calculated Total Compensation'
\* is the sum of the row's coerced values of the working table over exactly
\* the set of selected columns, each counted once
C1_DerivedIsSumOfSelected ==
    Analysed =>
        /\ len(out.calc_df) = len(combined_df)
        /\ \A i \in 1..len(combined_df) :
              out.calc_df.data[Derived][i] =
                  NumCell(SetSum(Range(out.selected_columns),
                                 [c \in Range(out.selected_columns) |->
                                     CoercedValue(combined_df.data[c], i)]))

\* C1 witness: a table with two vocabulary columns of which only 'Bonus' is
\* selected, and a row whose unselected 'Base Salary' is not 0
C1_Witness ==
    /\ out.stage = "done"
    /\ out.selected_columns = <<"Bonus">>
    /\ "Base Salary" \in set(combined_df)
    /\ \E i \in 1..len(combined_df) :
          /\ combined_df.data["Base Salary"][i].v # 0
          /\ out.calc_df.data[Derived][i].v # 0

\* C2: when the row-wise sum is taken, every cell of every selected column is
\* a number, and it is 0 where the stripped text of the working table's cell
\* does not parse
C2_SummedCellsAreNumbers ==
    Analysed =>
        \A c \in Range(out.selected_columns) : \A i \in 1..len(combined_df) :
            /\ IsNum(out.summed.data[c][i])
            /\ ~IsDecimal(StrippedText(combined_df.data[c][i])) => out.summed.data[c][i].v = 0

\* C2 witness: a selected column holds a missing cell and a text that does
\* not parse
C2_Witness ==
    /\ out.stage = "done"
    /\ \E c \in Range(out.selected_columns) : \E i, j \in 1..len(combined_df) :
          /\ IsNaN(combined_df.data[c][i])
          /\ IsStr(combined_df.data[c][j])
          /\ ~IsDecimal(StrippedText(combined_df.data[c][j]))

\* C3: with a working table of zero rows and a non-empty selection the
\* analysis does not come to divide total_comp by len(calc_df)
C3_ZeroRowsNoDivision ==
    (/\ ~IsNone(combined_df) /\ len(combined_df) = 0
     /\ ~selected_columns.none /\ selected_columns.value # <<>>)
        => out.stage # "done"

RECURSIVE Common(_)
\* the column names the tables dfs all have
Common(dfs) == IF Len(dfs) = 1 THEN set(dfs[1]) ELSE set(dfs[1]) \cap Common(Tail(dfs))

\* the run stacked several sources
Stacking == Len(run.dfs) >= 2
Identical(dfs) == \A i, j \in 1..Len(dfs) : set(dfs[i]) = set(dfs[j])

\* C4: a run that stacks sources without a common column stores no combined
\* table and shows no success message
C4_DisjointStackFails ==
    (Stacking /\ Common(run.dfs) = {}) => (~run.stored /\ ~run.success)

C6_RowCounts ==
    /\ (run.stored /\ Stacking /\ Identical(run.dfs)) =>
          /\ len(combined_df) = SumLen(run.dfs)
          /\ \A c \in set(combined_df) : Len(combined_df.data[c]) = SumLen(run.dfs)
          /\ \A i \in 1..len(combined_df) : combined_df.index[i] = i - 1
    /\ (run.op \in {"upload", "connect"} /\ ~IsNone(run.df)) =>
          /\ len(run.df) = len(run.raw)
          /\ \A c \in set(run.df) : Len(run.df.data[c]) = len(run.raw)
    /\ Analysed =>
          /\ len(out.calc_df) = len(combined_df)
          /\ \A c \in set(out.calc_df) : Len(out.calc_df.data[c]) = len(combined_df)

\* C6 witness: two sources of one row each and the same columns were stacked
\* and the result was analysed
C6_Witness ==
    /\ run.stored /\ Stacking /\ Identical(run.dfs)
    /\ \A i \in 1..Len(run.dfs) : len(run.dfs[i]) = 1
    /\ len(combined_df) = 2
    /\ Analysed

\* the rule of the normalizer on one column: strip, parse, 0 on failure
Normalized(col) ==
    [i \in 1..Len(col) |->
        NumCell(IF IsDecimal(StrippedText(col[i])) THEN DecimalVal(StrippedText(col[i])) ELSE 0)]

\* C7: a source read by an upload or from a sheet has every text cell of a
\* column whose name contains a vocabulary term normalized by strip, parse,
\* 0 on failure, and every other column as it was read
C7_IngestionNormalizesVocabulary ==
    (run.op \in {"upload", "connect"} /\ ~IsNone(run.df)) =>
        \A c \in set(run.raw) :
            IF \E term \in comp_terms : term \in Substrings(c)
            THEN \A i \in 1..len(run.raw) :
                    IsStr(run.raw.data[c][i]) => run.df.data[c][i] = Normalized(run.raw.data[c])[i]
            ELSE run.df.data[c] = run.raw.data[c]

(***************************************************************************)
(* The normalizer of get_google_sheet_data applied to its own result       *)
(***************************************************************************)
RenormalizeCells == [col \in Range(ColumnNames) |->
    {Text(<<"5">>), Dollar7, Text(<<"7", ".", "5">>), Text(<<"x">>), NaN,
     Text(<<"0", ".", "0", "0", "0", "0", "1">>)}]

RenormalizeValues == UNION {Frames(<<"Base Salary">>, n, RenormalizeCells) : n \in 1..MaxRowsSingle}

InitRenormalize ==
    /\ variant = "gs"
    /\ uploaded_files = <<>>
    /\ excel_df = None
    /\ sheets_df = None
    /\ combined_df = None
    /\ proceed_anyway = FALSE
    /\ combine_method = "Append (Stack records)"
    /\ key_column = NoWidget
    /\ join_type = "inner"
    /\ selected_columns = NoWidget
    /\ run \in {[NoRun EXCEPT !.op = "values", !.raw = values] : values \in RenormalizeValues}
    /\ out = NoAnalysis

\* the normalizer applied to the values read, then to its own result; dfs
\* keeps the result of the first application
Renormalize ==
    /\ run.op \in {"values", "once"}
    /\ run' = IF run.op = "values"
              THEN [run EXCEPT !.op = "once", !.df = get_google_sheet_data(run.raw),
                               !.dfs = <<get_google_sheet_data(run.raw)>>]
              ELSE [run EXCEPT !.op = "twice", !.df = get_google_sheet_data(run.df)]
    /\ UNCHANGED <<variant, uploaded_files, excel_df, sheets_df, combined_df, proceed_anyway,
                   combine_method, key_column, join_type, selected_columns, out>>

Renormalizing == InitRenormalize /\ [][Renormalize]_vars

\* C8: normalizing a normalized table gives the table normalized once
C8_NormalizeTwiceIsOnce == run.op = "twice" => run.df = run.dfs[1]

\* C9: the breakdown lists the selected columns in their order, then 'Total'
\* with the grand total; the grand total is the sum of the derived column and
\* the sum of the per-column totals; the average of a table with rows is the
\* grand total over the row count
C9_Breakdown ==
    out.stage = "done" =>
        LET n == Len(out.selected_columns)
            rows == 1..len(out.calc_df)
        IN /\ Len(out.chart_data) = n + 1
           /\ \A k \in 1..n : out.chart_data[k].Component = out.selected_columns[k]
           /\ out.chart_data[n + 1] = [Component |-> "Total", Amount |-> out.total_comp]
           /\ out.total_comp = SetSum(rows, [i \in rows |-> out.calc_df.data[Derived][i].v])
           /\ out.total_comp = SetSum(1..n, [k \in 1..n |-> out.chart_data[k].Amount])
           /\ len(out.calc_df) > 0 =>
                 (out.avg_comp.num = out.total_comp /\ out.avg_comp.den = len(combined_df))

\* the department values of the analysed table
Departments == {out.calc_df.data["Department"][i] : i \in 1..len(out.calc_df)} \ {NaN}
RowsOf(d) == {i \in 1..len(out.calc_df) : out.calc_df.data["Department"][i] = d}

\* C10: with a 'Department' column the group breakdown has one row for each
\* department value, holding the sum, the mean and the count of the derived
\* column over the rows of that department, the larger sums first
C10_DepartmentBreakdown ==
    (out.stage = "done" /\ "Department" \in set(out.calc_df)) =>
        /\ Len(out.dept_data) = Cardinality(Departments)
        /\ {out.dept_data[g].key : g \in 1..Len(out.dept_data)} = Departments
        /\ \A g \in 1..Len(out.dept_data) :
              LET r == out.dept_data[g]
                  total == SetSum(RowsOf(r.key),
                                  [i \in RowsOf(r.key) |-> out.calc_df.data[Derived][i].v])
              IN /\ r.sum = total
                 /\ r.count = Cardinality(RowsOf(r.key))
                 /\ r.mean.num = total /\ r.mean.den = Cardinality(RowsOf(r.key))
        /\ \A g \in 1..(Len(out.dept_data) - 1) : out.dept_data[g].sum >= out.dept_data[g + 1].sum

\* C10 witness: two departments, the one whose key comes later has the larger
\* sum and stands first
C10_Witness ==
    /\ out.stage = "done" /\ "Department" \in set(out.calc_df)
    /\ Len(out.dept_data) = 2
    /\ out.dept_data[1].key = Text(<<"O">>)
    /\ out.dept_data[1].sum > out.dept_data[2].sum

\* C11: no aggregation or combination attempt ends in an uncaught fault that
\* aborts the script run: every run that starts the aggregation step reaches
\* its end with a table or a reported failure
C11_NoUncaughtFault == out.stage # "raised" /\ ~run.raised

\* the table the analysis tab of the last run worked on, None when it had none
WorkingTable ==
    IF variant = "multi" THEN combined_df
    ELSE IF run.stopped \/ run.raised \/ (IsNone(excel_df) /\ IsNone(sheets_df)) THEN None
    ELSE combined_df

\* the table a combination of the sources held now gives, None without a source
RebuiltTable ==
    IF variant = "multi"
    THEN (IF uploaded_files = <<>> THEN None
          ELSE combine_all(dict_values(uploaded_files)).combined)
    ELSE tab3_combine(excel_df, sheets_df, proceed_anyway, combine_method,
                      key_column.value, join_type).combined

\* C12: after any sequence of add, remove and combine operations the working
\* table of the analysis tab is the one rebuilt from the sources held now: it
\* has no rows of a removed source, lacks no added source, and does not exist
\* when no source is held
C12_WorkingTableIsRebuilt ==
    /\ ~IsNone(WorkingTable) => WorkingTable = RebuiltTable
    /\ IsNone(RebuiltTable) => IsNone(WorkingTable)

\* C15: in the multi-file script an add under the default label, after any
\* sequence of adds and removes, replaces no source already held: the number
\* of held sources grows by exactly one
C15_DefaultLabelIsNew ==
    [][(variant = "multi" /\ run'.op = "upload") =>
          Len(uploaded_files') = Len(uploaded_files) + 1]_vars

\* C14: the department breakdown partitions the working table, rows with a
\* missing department included: the group counts add up to the row count and
\* the group sums add up to the grand total
C14_DepartmentPartition ==
    (out.stage = "done" /\ "Department" \in set(out.calc_df)) =>
        LET groups == 1..Len(out.dept_data)
        IN /\ SetSum(groups, [g \in groups |-> out.dept_data[g].count]) = len(out.calc_df)
           /\ SetSum(groups, [g \in groups |-> out.dept_data[g].sum]) = out.total_comp

\* C13: the aggregation step works on a copy. A run that aggregates leaves the
\* session with the tables its upload or combination part stored: the combined
\* table is the combination of the sources (no derived column, no coerced
\* cell), every source is the table that was uploaded, also when the single
\* source is itself stored as the combined table; and a run that aggregates
\* the same table under the same selection again gives the same outputs
C13_AggregationOnCopy ==
    [][Analysed' =>
          /\ variant = "multi" =>
                /\ combined_df' = IF run'.op = "combine" THEN combine_all(run'.dfs).combined
                                   ELSE combined_df
                /\ \A i \in 1..Len(uploaded_files') :
                      uploaded_files'[i].df \in Range(dict_values(uploaded_files)) \cup {run'.df}
          /\ variant = "gs" =>
                /\ excel_df' = IF run'.op = "upload" THEN run'.df ELSE excel_df
                /\ sheets_df' = IF run'.op = "connect" /\ ~IsNone(run'.df) THEN run'.df
                                 ELSE sheets_df
                /\ combined_df' = tab3_combine(excel_df', sheets_df', proceed_anyway',
                                                combine_method', key_column'.value,
                                                join_type').combined
          /\ (Analysed /\ combined_df' = combined_df
                        /\ out'.selected_columns = out.selected_columns) => out' = out]_vars

\* C13 witness: the single uploaded file is stored as the combined table
\* itself, the aggregation ran on it twice with the same selection, coerced a
\* text cell and added the derived column, and the stored table has neither
C13_Witness ==
    /\ variant = "gs" /\ out.stage = "done" /\ run.op = "select"
    /\ IsNone(sheets_df) /\ combined_df = excel_df
    /\ Derived \notin set(combined_df) /\ Derived \in set(out.calc_df)
    /\ \E c \in Range(out.selected_columns) :
          /\ ~is_numeric_dtype(combined_df.data[c])
          /\ is_numeric_dtype(out.calc_df.data[c])

====
